---- MODULE Spec2Model ----
(***************************************************************************)
(* turftopic.base.ContextualModel: the shared reporting contract of the    *)
(* topic models (get_topics, the table builders, document ranking, topic    *)
(* distribution, prepare_topic_data) over the learned state of one model.   *)
(*                                                                          *)
(* Numbers: weights and scores are exact integers counting hundredths       *)
(* (0.9 is 90), so that "{x:.2f}" is an exact conversion.  Positions in     *)
(* sequences are 1-based here; Python's 0-based index i is position i+1.    *)
(* Topic ids keep their Python values (range(n) is 0..n-1, outlier is -1).  *)
(***************************************************************************)
EXTENDS Integers, Sequences, FiniteSets, TLC

VARIABLES
    fitted,         \* components_ and the vectorizer's vocabulary exist
    vocab,          \* vectorizer.get_feature_names_out()
    components_,    \* topic-term matrix: one row of weights per topic
    hasClasses,     \* the variant sets the attribute classes_
    classes_,       \* the learned label set
    hasTransform,   \* the variant defines transform (it is not transductive)
    last            \* the last call on the model: op, args, outcome, calls made

vars == <<fitted, vocab, components_, hasClasses, classes_, hasTransform, last>>

-----------------------------------------------------------------------------
(* Bounds of the model *)

MaxVocab == 5       \* vocabulary sizes 1..MaxVocab in the life-cycle spec
MaxRowLen == 4      \* row lengths 1..MaxRowLen in the exhaustive top-k spec
MaxTopics == 2      \* number of topics 1..MaxTopics
MaxSeed == 1        \* weight patterns 0..MaxSeed a fit may learn
MaxDocs == 3        \* corpus sizes 1..MaxDocs

(* Program constants *)

DefaultTopK == 10       \* get_topics / _topics_table / _topic_distribution
DefaultTopKDocs == 5    \* _highest_ranking_docs
NameTopK == 4           \* topic_names uses get_topics(top_k=4)
MaxDocChars == 300      \* display truncation of a document

-----------------------------------------------------------------------------
(* Python values *)

None == <<>>
Some(v) == <<v>>

Return(v) == [kind |-> "return", value |-> v, error |-> "none"]
Raise(e) == [kind |-> "raise", value |-> None, error |-> e]

AttributeError == "AttributeError"
NotFittedError == "NotFittedError"
IndexError == "IndexError"
KthOutOfBounds == "ValueError: kth out of bounds"
NotInList == "ValueError: is not in list"
EitherTextOrDist == "ValueError: You should either pass a text or a distribution."
TransductiveDocs ==
    "ValueError: Transductive methods cannot infer topical content in documents. Please pass a document_topic_matrix."
TransductiveDist ==
    "ValueError: Transductive methods cannot infer topical content in documents. Please pass a topic distribution."

Min(a, b) == IF a <= b THEN a ELSE b

\* list(range(n))
Range(n) == [i \in 1..n |-> i - 1]

\* sep.join(words)
RECURSIVE Join(_, _)
Join(words, sep) ==
    IF Len(words) = 0 THEN ""
    ELSE IF Len(words) = 1 THEN words[1]
    ELSE words[1] \o sep \o Join(Tail(words), sep)

\* f"{x:.2f}" of a number given in hundredths
Fmt2(x) ==
    LET a == IF x < 0 THEN -x ELSE x
        frac == a % 100
    IN  (IF x < 0 THEN "-" ELSE "") \o ToString(a \div 100) \o "."
            \o (IF frac < 10 THEN "0" ELSE "") \o ToString(frac)

-----------------------------------------------------------------------------
(* numpy: argpartition and argsort, with every order the contract allows    *)
(* among equal keys.                                                        *)

Neg(a) == [i \in DOMAIN a |-> -a[i]]

\* np.argpartition(a, kth)[:kth] as the set of its entries: the element at
\* position kth is in its sorted place, everything before it is not larger.
\* kth is a 0-based index into a; kth >= len(a) is a ValueError, stated by
\* the callers.
ArgPartitionHeads(a, kth) ==
    {S \in SUBSET DOMAIN a :
        /\ Cardinality(S) = kth
        /\ \E p \in DOMAIN a \ S :
              /\ \A s \in S : a[s] <= a[p]
              /\ \A r \in DOMAIN a \ S : a[r] >= a[p]}

\* idx[np.argsort(a[idx])] for the index set idx: every ascending order of
\* idx by key a
RECURSIVE ArgSortOrders(_, _)
ArgSortOrders(S, a) ==
    IF S = {} THEN {<<>>}
    ELSE UNION {{<<i>> \o rest : rest \in ArgSortOrders(S \ {i}, a)} :
                    i \in {j \in S : \A l \in S : a[j] <= a[l]}}

\* the sequences that take element i from choices[i]
RECURSIVE Product(_)
Product(choices) ==
    IF Len(choices) = 0 THEN {<<>>}
    ELSE {<<c>> \o rest : c \in Head(choices), rest \in Product(Tail(choices))}

-----------------------------------------------------------------------------
(* The model object *)

Self ==
    [fitted |-> fitted, vocab |-> vocab, components_ |-> components_,
     hasClasses |-> hasClasses, classes_ |-> classes_,
     hasTransform |-> hasTransform]

Unfitted(t) ==
    [fitted |-> FALSE, vocab |-> <<>>, components_ |-> <<>>,
     hasClasses |-> FALSE, classes_ |-> <<>>, hasTransform |-> t]

\* what a handler yields: the model afterwards, its outcome, and the calls
\* it made on the variant, the encoder and the vectorizer
Result(m, out, calls) == [self |-> m, out |-> out, calls |-> calls]

-----------------------------------------------------------------------------
(* The vectorizer's vocabulary and the matrices a fit can learn *)

TermList == <<"sale", "price", "item", "deal", "ship", "rate", "cost">>
Vocabulary(v) == SubSeq(TermList, 1, v)

WeightValues == {20, 50, 90}
WeightCycle == <<90, 50, 20>>

\* the weight pattern a fit learns for its first topic
BaseRow(seed, v) == [j \in 1..v |-> WeightCycle[((j - 1 + seed) % 3) + 1]]

\* the further topics: the first topic's weights in reverse, made distinct
TopicRow(base, t) ==
    IF t = 1 THEN base
    ELSE [j \in 1..Len(base) |-> base[Len(base) + 1 - j] + (t - 1) * j]

\* the label set of a variant that learns one: the outlier id first
Labels(n) == [t \in 1..n |-> t - 2]

Learned(base, n, c) ==
    [fitted |-> TRUE, vocab |-> Vocabulary(Len(base)),
     components_ |-> [t \in 1..n |-> TopicRow(base, t)],
     hasClasses |-> c, classes_ |-> IF c THEN Labels(n) ELSE <<>>]

FitOutcomes ==
    {Learned(BaseRow(s, v), n, c) :
        s \in 0..MaxSeed, v \in 1..MaxVocab, n \in 1..MaxTopics, c \in BOOLEAN}

AllRows == UNION {[1..v -> WeightValues] : v \in 1..MaxRowLen}

AllLearned == {Learned(b, n, c) : b \in AllRows, n \in 1..MaxTopics, c \in BOOLEAN}

WithTransform(o, t) ==
    [fitted |-> o.fitted, vocab |-> o.vocab, components_ |-> o.components_,
     hasClasses |-> o.hasClasses, classes_ |-> o.classes_, hasTransform |-> t]

-----------------------------------------------------------------------------
(* Documents: sequences of characters *)

Doc(i) == <<" ", "d", " ", " ">> \o [k \in 1..i |-> "x"] \o <<" ">>
Corpus(n) == [i \in 1..n |-> Doc(i)]

IsSpace(c) == c \in {" ", "\t", "\n"}

\* text.strip().split(): the maximal runs of non-space characters
RECURSIVE Split(_, _, _)
Split(text, i, word) ==
    IF i > Len(text) THEN (IF word = <<>> THEN <<>> ELSE <<word>>)
    ELSE IF IsSpace(text[i])
         THEN (IF word = <<>> THEN <<>> ELSE <<word>>) \o Split(text, i + 1, <<>>)
         ELSE Split(text, i + 1, Append(word, text[i]))

RECURSIVE JoinChars(_)
JoinChars(words) ==
    IF Len(words) = 0 THEN <<>>
    ELSE IF Len(words) = 1 THEN words[1]
    ELSE words[1] \o <<" ">> \o JoinChars(Tail(words))

remove_whitespace(text) == JoinChars(Split(text, 1, <<>>))

\* the characters as one string
RECURSIVE Str(_)
Str(chars) == IF Len(chars) = 0 THEN "" ELSE Head(chars) \o Str(Tail(chars))

\* the document as a table cell
DisplayDoc(raw) ==
    LET doc == remove_whitespace(raw)
    IN  IF Len(doc) > MaxDocChars
        THEN Str(SubSeq(doc, 1, MaxDocChars)) \o "..."
        ELSE Str(doc)

-----------------------------------------------------------------------------
(* get_topics *)

\* one topic row: np.argpartition(-component, top_k)[:top_k], then sorted
\* by -importance: the top_k positions by weight, in descending order
TopTermsAscending(component, top_k) ==
    UNION {ArgSortOrders(high, component) :
              high \in ArgPartitionHeads(component, top_k)}

TopTerms(component, top_k) ==
    UNION {ArgSortOrders(high, Neg(component)) :
              high \in ArgPartitionHeads(Neg(component), top_k)}

get_vocab(m) ==
    IF m.fitted THEN Result(m, Return(m.vocab), <<>>)
    ELSE Result(m, Raise(NotFittedError), <<>>)

\* the topic ids: self.classes_, or list(range(n_topics)) on AttributeError
ClassesAlwaysRange(m) == Range(Len(m.components_))

Classes(m) == IF m.hasClasses THEN m.classes_ ELSE Range(Len(m.components_))

\* what get_topics returns or raises
TopicsOf(m, top_k) ==
    IF ~m.fitted THEN {Raise(AttributeError)}
    ELSE
      LET n_topics == Len(m.components_)
          classes == Classes(m)
      IN  IF top_k >= Len(m.components_[1])
          THEN {Raise(KthOutOfBounds)}
          ELSE
            {Return([i \in 1..Min(Len(classes), n_topics) |->
                    <<classes[i],
                      [p \in 1..top_k |->
                          <<m.vocab[highest[i][p]],
                            m.components_[i][highest[i][p]]>>]>>]) :
             highest \in Product([t \in 1..n_topics |->
                                    TopTerms(m.components_[t], top_k)])}

\* a get_topics that keeps the fallback ids on the model
get_topics_keeping_ids(m, top_k) ==
    {Result(IF m.fitted /\ ~m.hasClasses
            THEN [m EXCEPT !.hasClasses = TRUE, !.classes_ = Range(Len(m.components_))]
            ELSE m, out, <<>>) : out \in TopicsOf(m, top_k)}

get_topics(m, top_k) == {Result(m, out, <<>>) : out \in TopicsOf(m, top_k)}

-----------------------------------------------------------------------------
(* The variant's own code, abstract in ContextualModel: the encoder, the    *)
(* vectorizer, transform and the fitting operations.                        *)

\* self.encoder_.encode(raw_documents): one embedding per document
encode_documents(m, raw_documents) ==
    Result(m, Return([d \in 1..Len(raw_documents) |-> <<Len(raw_documents[d])>>]),
           <<"encode_documents">>)

\* self.vectorizer.transform(corpus): one row of term counts per document
VectorizerTransform(m, corpus) ==
    [d \in 1..Len(corpus) |->
        [j \in 1..Len(m.vocab) |-> (Len(remove_whitespace(corpus[d])) + j) % 2]]

\* the topic scores a fitted variant infers for the documents
DocumentTopicMatrix(m, raw_documents) ==
    [d \in 1..Len(raw_documents) |->
        [t \in 1..Len(m.components_) |->
            (Len(remove_whitespace(raw_documents[d])) * (20 + 15 * t)) % 101]]

\* self.transform(raw_documents): the attribute is missing on a transductive
\* variant, and a variant that has it refuses before any fit
transform(m, raw_documents) ==
    IF ~m.hasTransform THEN Result(m, Raise(AttributeError), <<"transform">>)
    ELSE IF ~m.fitted THEN Result(m, Raise(NotFittedError), <<"transform">>)
    ELSE Result(m, Return(DocumentTopicMatrix(m, raw_documents)), <<"transform">>)

fit_transform(m, raw_documents, outcome) ==
    LET m1 == WithTransform(outcome, m.hasTransform)
    IN  Result(m1, Return(DocumentTopicMatrix(m1, raw_documents)), <<"fit_transform">>)

fit_transform_dynamic(m, raw_documents, outcome) ==
    LET m1 == WithTransform(outcome, m.hasTransform)
    IN  Result(m1, Return(DocumentTopicMatrix(m1, raw_documents)),
               <<"fit_transform_dynamic">>)

\* what one more batch can turn the learned state into: the topics and the
\* labels stay, the vocabulary does not shrink
PartialFitOutcomes(m) ==
    {o \in FitOutcomes :
        m.fitted => /\ Len(o.components_) = Len(m.components_)
                    /\ o.hasClasses = m.hasClasses
                    /\ Len(o.vocab) >= Len(m.vocab)}

partial_fit(m, raw_documents, outcome) ==
    Result(WithTransform(outcome, m.hasTransform), Return(None), <<"partial_fit">>)

fit(m, raw_documents, outcome) ==
    LET r == fit_transform(m, raw_documents, outcome)
    IN  Result(r.self, Return("self"), r.calls)

-----------------------------------------------------------------------------
(* Tables of topics *)

TermCell(term, show_scores) ==
    IF show_scores THEN term[1] \o "(" \o Fmt2(term[2]) \o ")" ELSE term[1]

TopicsGrid(topics, top_k, show_scores) ==
    << <<"Topic ID", "Top " \o ToString(top_k) \o " Words">> >> \o
    [i \in 1..Len(topics) |->
        <<ToString(topics[i][1]),
          Join([p \in 1..Len(topics[i][2]) |-> TermCell(topics[i][2][p], show_scores)],
               ", ")>>]

_topics_table(m, top_k, show_scores) ==
    {IF r.out.kind = "raise" THEN r
     ELSE Result(r.self, Return(TopicsGrid(r.out.value, top_k, show_scores)), r.calls) :
     r \in get_topics(m, top_k)}

Formats == {"csv", "latex", "markdown"}

Separator(format) ==
    IF format = "csv" THEN "," ELSE IF format = "latex" THEN " & " ELSE " | "

\* turftopic.utils.export_table: the grid as text, one line per row
export_table(table, format) ==
    [format |-> format, lines |-> [i \in 1..Len(table) |-> Join(table[i], Separator(format))]]

Exported(results, format) ==
    {IF r.out.kind = "raise" THEN r
     ELSE Result(r.self, Return(export_table(r.out.value, format)), r.calls) :
     r \in results}

export_topics(m, top_k, show_scores, format) ==
    Exported(_topics_table(m, top_k, show_scores), format)

TopicName(topic) ==
    ToString(topic[1]) \o "_" \o Join([p \in 1..Len(topic[2]) |-> topic[2][p][1]], "_")

topic_names(m) ==
    {IF r.out.kind = "raise" THEN r
     ELSE Result(r.self, Return([i \in 1..Len(r.out.value) |-> TopicName(r.out.value[i])]),
                 r.calls) :
     r \in get_topics(m, NameTopK)}

get_feature_names_out(m) ==
    IF ~m.fitted THEN Result(m, Raise(AttributeError), <<>>)
    ELSE Result(m, Return(IF m.hasClasses THEN m.classes_
                          ELSE Range(Len(m.components_))), <<>>)

-----------------------------------------------------------------------------
(* _highest_ranking_docs *)

\* list(self.classes_).index(topic_id), 0-based
IndexOf(list, x) == (CHOOSE i \in 1..Len(list) :
                        list[i] = x /\ \A j \in 1..(i - 1) : list[j] # x) - 1

\* a[:, c] for a Python index c: the column's position, 0 when out of range
ColumnOf(c, ncols) ==
    IF 0 <= c /\ c < ncols THEN c + 1
    ELSE IF c < 0 /\ -ncols <= c THEN ncols + c + 1
    ELSE 0

\* topic_id as a column index: its place in self.classes_, or itself on
\* AttributeError; found is FALSE when list.index raises
ResolveTopicPositional(m, topic_id) == [found |-> TRUE, index |-> topic_id]

ResolveTopic(m, topic_id) ==
    IF ~m.hasClasses THEN [found |-> TRUE, index |-> topic_id]
    ELSE IF \E i \in 1..Len(m.classes_) : m.classes_[i] = topic_id
         THEN [found |-> TRUE, index |-> IndexOf(m.classes_, topic_id)]
         ELSE [found |-> FALSE, index |-> 0]

RankedDocs(m, topic_id, raw_documents, dtm, top_k, calls) ==
    IF ~ResolveTopic(m, topic_id).found
    THEN {Result(m, Raise(NotInList), calls)}
    ELSE
      LET index == ResolveTopic(m, topic_id).index
          kth == Min(top_k, Len(dtm) - 1)
          c == ColumnOf(index, Len(dtm[1]))
      IN  IF c = 0 THEN {Result(m, Raise(IndexError), calls)}
          ELSE
            LET column == [d \in 1..Len(dtm) |-> dtm[d][c]]
            IN  {Result(m,
                    Return(<< <<"Document", "Score">> >> \o
                           [i \in 1..Len(highest) |->
                               <<DisplayDoc(raw_documents[highest[i]]),
                                 Fmt2(column[highest[i]])>>]),
                    calls) :
                 highest \in UNION {ArgSortOrders(head, Neg(column)) :
                                      head \in ArgPartitionHeads(Neg(column), kth)}}

\* a _highest_ranking_docs that takes every failure of transform for a
\* missing transform
_highest_ranking_docs_any_failure(m, topic_id, raw_documents, document_topic_matrix, top_k) ==
    IF document_topic_matrix = None
    THEN LET t == transform(m, raw_documents)
         IN  IF t.out.kind = "raise"
             THEN {Result(m, Raise(TransductiveDocs), t.calls)}
             ELSE RankedDocs(m, topic_id, raw_documents, t.out.value, top_k, t.calls)
    ELSE RankedDocs(m, topic_id, raw_documents, document_topic_matrix[1], top_k, <<>>)

_highest_ranking_docs(m, topic_id, raw_documents, document_topic_matrix, top_k) ==
    IF document_topic_matrix = None
    THEN LET t == transform(m, raw_documents)
         IN  IF t.out.kind = "raise"
             THEN {IF t.out.error = AttributeError
                   THEN Result(m, Raise(TransductiveDocs), t.calls)
                   ELSE t}
             ELSE RankedDocs(m, topic_id, raw_documents, t.out.value, top_k, t.calls)
    ELSE RankedDocs(m, topic_id, raw_documents, document_topic_matrix[1], top_k, <<>>)

export_highest_ranking_documents(m, topic_id, raw_documents, document_topic_matrix, top_k, format) ==
    Exported(_highest_ranking_docs(m, topic_id, raw_documents, document_topic_matrix,
                                   top_k), format)

-----------------------------------------------------------------------------
(* _topic_distribution *)

\* np.squeeze(np.asarray(x)) of a vector: a single entry leaves a 0-d array
Squeeze(v) == [ndim |-> IF Len(v) = 1 THEN 0 ELSE 1, data |-> v]

\* np.argsort(-topic_dist)[:top_k]: a 0-d array sorts as one element
HighestTopics(dist, top_k) ==
    {SubSeq(order, 1, Min(top_k, Len(order))) :
        order \in ArgSortOrders(DOMAIN dist.data, Neg(dist.data))}

DistributionGrid(m, dist, top_k, calls) ==
    UNION {
        IF names.out.kind = "raise" THEN {Result(m, names.out, calls)}
        ELSE {IF Len(highest) > 0 /\
                 (dist.ndim = 0 \/ \E i \in 1..Len(highest) :
                                      highest[i] > Len(names.out.value))
              THEN Result(m, Raise(IndexError), calls)
              ELSE Result(m,
                     Return(<< <<"Topic name", "Score">> >> \o
                            [i \in 1..Len(highest) |->
                                <<names.out.value[highest[i]],
                                  Fmt2(dist.data[highest[i]])>>]),
                     calls) :
              highest \in HighestTopics(dist, top_k)} :
        names \in topic_names(m)}

\* a _topic_distribution that asks for the text whatever else is passed
_topic_distribution_needs_text(m, text, topic_dist, top_k) ==
    IF text = None THEN {Result(m, Raise(EitherTextOrDist), <<>>)}
    ELSE IF topic_dist = None
    THEN LET t == transform(m, <<text[1]>>)
         IN  IF t.out.kind = "raise"
             THEN {IF t.out.error = AttributeError
                   THEN Result(m, Raise(TransductiveDist), t.calls)
                   ELSE t}
             ELSE DistributionGrid(m, Squeeze(t.out.value[1]), top_k, t.calls)
    ELSE DistributionGrid(m, Squeeze(topic_dist[1]), top_k, <<>>)

_topic_distribution(m, text, topic_dist, top_k) ==
    IF topic_dist = None
    THEN IF text = None THEN {Result(m, Raise(EitherTextOrDist), <<>>)}
         ELSE LET t == transform(m, <<text[1]>>)
              IN  IF t.out.kind = "raise"
                  THEN {IF t.out.error = AttributeError
                        THEN Result(m, Raise(TransductiveDist), t.calls)
                        ELSE t}
                  ELSE DistributionGrid(m, Squeeze(t.out.value[1]), top_k, t.calls)
    ELSE DistributionGrid(m, Squeeze(topic_dist[1]), top_k, <<>>)

export_topic_distribution(m, text, topic_dist, top_k, format) ==
    Exported(_topic_distribution(m, text, topic_dist, top_k), format)

-----------------------------------------------------------------------------
(* prepare_topic_data *)

\* try transform, and fit_transform on AttributeError or NotFittedError
InferOrFitAlways(m, corpus, outcome) ==
    LET f == fit_transform(m, corpus, outcome)
    IN  Result(f.self, f.out, f.calls)

InferOrFit(m, corpus, outcome) ==
    LET t == transform(m, corpus)
    IN  IF t.out.kind = "raise" /\ t.out.error \in {AttributeError, NotFittedError}
        THEN LET f == fit_transform(m, corpus, outcome)
             IN  Result(f.self, f.out, t.calls \o f.calls)
        ELSE t

\* the TopicData dictionary
TopicDataGivenEmbeddings(m, corpus, given, embeddings, document_topic_matrix, names) ==
    [corpus |-> Some(corpus),
     document_term_matrix |-> Some(VectorizerTransform(m, corpus)),
     vocab |-> Some(get_vocab(m).out.value),
     document_topic_matrix |-> Some(document_topic_matrix),
     document_representation |-> given,
     topic_term_matrix |-> Some(m.components_),
     transform |-> IF m.hasTransform THEN Some("self.transform") ELSE None,
     topic_names |-> Some(names)]

TopicData(m, corpus, given, embeddings, document_topic_matrix, names) ==
    [corpus |-> Some(corpus),
     document_term_matrix |-> Some(VectorizerTransform(m, corpus)),
     vocab |-> Some(get_vocab(m).out.value),
     document_topic_matrix |-> Some(document_topic_matrix),
     document_representation |-> Some(embeddings),
     topic_term_matrix |-> Some(m.components_),
     transform |-> IF m.hasTransform THEN Some("self.transform") ELSE None,
     topic_names |-> Some(names)]

prepare_topic_data(m, corpus, embeddings, outcome) ==
    LET e == IF embeddings = None THEN encode_documents(m, corpus)
             ELSE Result(m, Return(embeddings[1]), <<>>)
        f == InferOrFit(m, corpus, outcome)
        m1 == f.self
        calls == e.calls \o f.calls \o <<"vectorizer.transform">>
    IN  {IF names.out.kind = "raise" THEN Result(m1, names.out, calls)
         ELSE Result(m1,
                Return(TopicData(m1, corpus, embeddings, e.out.value, f.out.value,
                                 names.out.value)),
                calls) :
         names \in topic_names(m1)}

-----------------------------------------------------------------------------
(* Inputs *)

TopKs == 1..(MaxVocab + 1) \cup {DefaultTopK}
TableTopKs == {1, MaxVocab - 1, MaxVocab, DefaultTopK}
TopicIds == -1..MaxTopics
Corpora == {Corpus(n) : n \in 1..MaxDocs}
FitCorpora == {Corpus(1), Corpus(MaxDocs)}

\* what the variant's fit_transform would learn if prepare_topic_data came
\* to call it
FallbackOutcomes(m) ==
    IF m.fitted /\ m.hasTransform THEN {CHOOSE o \in FitOutcomes : TRUE}
    ELSE FitOutcomes

ScoreValues == {0, 25, 100}
ScoreCycle == <<25, 100, 0>>

\* a caller's document-topic matrix: the first column is base, the others
\* are made from it
MatrixOf(base, ncols) ==
    [d \in 1..Len(base) |-> [t \in 1..ncols |-> (base[d] + (t - 1) * (10 * d + 5)) % 101]]

\* a caller's distribution over n topics
Distribution(seed, n) == [t \in 1..n |-> ScoreCycle[((t - 1 + seed) % 3) + 1]]

\* the widths a caller's matrix or distribution can have: the number of
\* topics once there is one
Widths(m) == IF m.fitted THEN {Len(m.components_)} ELSE 1..MaxTopics

-----------------------------------------------------------------------------
(* Actions: a call runs to completion and leaves its outcome in last; the   *)
(* caller takes the outcome before it calls again.                          *)

NoCall == [op |-> "none", args |-> <<>>, out |-> Return(None), calls |-> <<>>]

Idle == last.op = "none"

Call(op, args, r) ==
    /\ fitted' = r.self.fitted
    /\ vocab' = r.self.vocab
    /\ components_' = r.self.components_
    /\ hasClasses' = r.self.hasClasses
    /\ classes_' = r.self.classes_
    /\ hasTransform' = r.self.hasTransform
    /\ last' = [op |-> op, args |-> args, out |-> r.out, calls |-> r.calls]

Fit ==
    /\ Idle
    /\ \E o \in FitOutcomes, docs \in FitCorpora :
        Call("fit", [raw_documents |-> docs], fit(Self, docs, o))

FitTransform ==
    /\ Idle
    /\ \E o \in FitOutcomes, docs \in FitCorpora :
        Call("fit_transform", [raw_documents |-> docs], fit_transform(Self, docs, o))

FitTransformDynamic ==
    /\ Idle
    /\ \E o \in FitOutcomes, docs \in FitCorpora :
        Call("fit_transform_dynamic", [raw_documents |-> docs],
             fit_transform_dynamic(Self, docs, o))

PartialFit ==
    /\ Idle
    /\ \E o \in PartialFitOutcomes(Self), docs \in FitCorpora :
        Call("partial_fit", [raw_documents |-> docs], partial_fit(Self, docs, o))

GetTopics ==
    /\ Idle
    /\ \E k \in TopKs :
        \E r \in get_topics(Self, k) : Call("get_topics", [top_k |-> k], r)

TopicsTable ==
    /\ Idle
    /\ \E k \in TableTopKs, s \in BOOLEAN :
        \E r \in _topics_table(Self, k, s) :
            Call("_topics_table", [top_k |-> k, show_scores |-> s], r)

ExportTopics ==
    /\ Idle
    /\ \E k \in TableTopKs, s \in BOOLEAN, f \in Formats :
        \E r \in export_topics(Self, k, s, f) :
            Call("export_topics", [top_k |-> k, show_scores |-> s, format |-> f], r)

TopicNames ==
    /\ Idle
    /\ \E r \in topic_names(Self) : Call("topic_names", <<>>, r)

GetVocab == Idle /\ Call("get_vocab", <<>>, get_vocab(Self))

GetFeatureNamesOut ==
    Idle /\ Call("get_feature_names_out", <<>>, get_feature_names_out(Self))

HighestRankingDocs ==
    /\ Idle
    /\ \E id \in TopicIds, docs \in Corpora, k \in {1, DefaultTopKDocs} :
        \E M \in {None} \cup {Some(MatrixOf([d \in 1..Len(docs) |-> ScoreCycle[(d % 3) + 1]], w)) :
                                w \in Widths(Self)} :
            \E r \in _highest_ranking_docs(Self, id, docs, M, k) :
                Call("_highest_ranking_docs",
                     [topic_id |-> id, raw_documents |-> docs,
                      document_topic_matrix |-> M, top_k |-> k], r)

ExportHighestRankingDocuments ==
    /\ Idle
    /\ \E id \in TopicIds, f \in Formats :
        \E M \in {None, Some(DocumentTopicMatrix(Self, Corpus(MaxDocs)))} :
            \E r \in export_highest_ranking_documents(Self, id, Corpus(MaxDocs), M,
                                                       DefaultTopKDocs, f) :
                Call("export_highest_ranking_documents",
                     [topic_id |-> id, raw_documents |-> Corpus(MaxDocs),
                      document_topic_matrix |-> M, top_k |-> DefaultTopKDocs,
                      format |-> f], r)

\* _highest_ranking_docs on every matrix a caller can pass
RankDocuments ==
    /\ Idle
    /\ \E id \in TopicIds, n \in 1..MaxDocs, k \in 1..(MaxDocs + 1) :
        \E base \in [1..n -> ScoreValues], w \in Widths(Self) :
            \E r \in _highest_ranking_docs(Self, id, Corpus(n),
                                            Some(MatrixOf(base, w)), k) :
                Call("_highest_ranking_docs",
                     [topic_id |-> id, raw_documents |-> Corpus(n),
                      document_topic_matrix |-> Some(MatrixOf(base, w)),
                      top_k |-> k], r)

TopicDistribution ==
    /\ Idle
    /\ \E text \in {None, Some(Doc(1))}, k \in {1, DefaultTopK} :
        \E dist \in {None} \cup {Some(Distribution(s, w)) :
                                   s \in 0..MaxSeed, w \in Widths(Self)} :
            \E r \in _topic_distribution(Self, text, dist, k) :
                Call("_topic_distribution",
                     [text |-> text, topic_dist |-> dist, top_k |-> k], r)

ExportTopicDistribution ==
    /\ Idle
    /\ \E text \in {None, Some(Doc(1))}, f \in Formats :
        \E dist \in {None} \cup {Some(Distribution(0, w)) : w \in Widths(Self)} :
            \E r \in export_topic_distribution(Self, text, dist, DefaultTopK, f) :
                Call("export_topic_distribution",
                     [text |-> text, topic_dist |-> dist, top_k |-> DefaultTopK,
                      format |-> f], r)

PrepareTopicData ==
    /\ Idle
    /\ \E o \in FallbackOutcomes(Self), docs \in FitCorpora :
        \E emb \in {None, Some(encode_documents(Self, docs).out.value)} :
            \E r \in prepare_topic_data(Self, docs, emb, o) :
                Call("prepare_topic_data", [corpus |-> docs, embeddings |-> emb], r)

\* the caller takes the outcome of the call
Resume ==
    /\ ~Idle
    /\ last' = NoCall
    /\ UNCHANGED <<fitted, vocab, components_, hasClasses, classes_, hasTransform>>

Init ==
    /\ \E t \in BOOLEAN :
        /\ fitted = FALSE
        /\ vocab = <<>>
        /\ components_ = <<>>
        /\ hasClasses = FALSE
        /\ classes_ = <<>>
        /\ hasTransform = t
    /\ last = NoCall

Next ==
    \/ Fit
    \/ FitTransform
    \/ FitTransformDynamic
    \/ PartialFit
    \/ GetTopics
    \/ TopicsTable
    \/ ExportTopics
    \/ TopicNames
    \/ GetVocab
    \/ GetFeatureNamesOut
    \/ HighestRankingDocs
    \/ ExportHighestRankingDocuments
    \/ TopicDistribution
    \/ ExportTopicDistribution
    \/ PrepareTopicData
    \/ Resume

Spec == Init /\ [][Next]_vars

-----------------------------------------------------------------------------
(* get_topics as a function of the matrix: every row over WeightValues      *)

InitTopics ==
    /\ \E o \in AllLearned, t \in BOOLEAN :
        /\ fitted = o.fitted
        /\ vocab = o.vocab
        /\ components_ = o.components_
        /\ hasClasses = o.hasClasses
        /\ classes_ = o.classes_
        /\ hasTransform = t
    /\ last = NoCall

NextTopics ==
    \/ GetTopics
    \/ Resume

SpecTopics == InitTopics /\ [][NextTopics]_vars

-----------------------------------------------------------------------------
(* _highest_ranking_docs as a function of the matrix: every score column    *)
(* over ScoreValues, on an unfitted model and on fitted ones                *)

DocsModels ==
    {Learned(BaseRow(0, 1), n, c) : n \in 1..MaxTopics, c \in BOOLEAN}

InitDocs ==
    /\ \E t \in BOOLEAN :
        \E m \in {Unfitted(t)} \cup {WithTransform(o, t) : o \in DocsModels} :
            /\ fitted = m.fitted
            /\ vocab = m.vocab
            /\ components_ = m.components_
            /\ hasClasses = m.hasClasses
            /\ classes_ = m.classes_
            /\ hasTransform = m.hasTransform
    /\ last = NoCall

NextDocs ==
    \/ RankDocuments
    \/ Resume

SpecDocs == InitDocs /\ [][NextDocs]_vars

-----------------------------------------------------------------------------
(* Properties *)

Returned(op) == last.op = op /\ last.out.kind = "return"
Raised(op, e) == last.op = op /\ last.out.kind = "raise" /\ last.out.error = e

\* the (term, weight) pairs get_topics returned for topic row i
TermsOf(i) == last.out.value[i][2]

\* the positions of the vocabulary that hold the term
PositionsOf(term) == {j \in 1..Len(vocab) : vocab[j] = term}

\* C1: for every fitted model and every positive top_k, get_topics returns for
\* each topic exactly min(top_k, vocab_size) (term, weight) pairs, the weights
\* strictly descending, no term repeated, every term one of get_vocab(); top_k
\* equal to or greater than vocab_size included.
C1_MinKTermsStrictlyDescending ==
    (last.op = "get_topics" /\ fitted) =>
        /\ last.out.kind = "return"
        /\ Len(last.out.value) = Len(components_)
        /\ \A i \in 1..Len(last.out.value) :
              /\ Len(TermsOf(i)) = Min(last.args.top_k, Len(vocab))
              /\ \A p, q \in 1..Len(TermsOf(i)) :
                    p < q => /\ TermsOf(i)[p][2] > TermsOf(i)[q][2]
                             /\ TermsOf(i)[p][1] # TermsOf(i)[q][1]
              /\ \A p \in 1..Len(TermsOf(i)) : PositionsOf(TermsOf(i)[p][1]) # {}

\* C2: for every topic row r and every top_k below vocab_size, the terms
\* get_topics returns for r are top_k terms of highest weight in row r (no
\* omitted term outweighs a returned one), each returned weight is the entry
\* of row r at the term's vocabulary position, and the pairs are listed by
\* descending weight; [sale, price, item] weighted [0.9, 0.5, 0.2] with
\* top_k = 2 gives [(sale, 0.9), (price, 0.5)].
C2_TopKHighestWeights ==
    (last.op = "get_topics" /\ fitted /\ last.args.top_k < Len(vocab)) =>
        /\ last.out.kind = "return"
        /\ Len(last.out.value) = Len(components_)
        /\ \A r \in 1..Len(components_) :
              LET terms == TermsOf(r)
                  row == components_[r]
                  returned == UNION {PositionsOf(terms[p][1]) : p \in 1..Len(terms)}
              IN  /\ Len(terms) = last.args.top_k
                  /\ Cardinality(returned) = last.args.top_k
                  /\ \A p \in 1..Len(terms) :
                        \A j \in PositionsOf(terms[p][1]) : terms[p][2] = row[j]
                  /\ \A j \in (1..Len(vocab)) \ returned :
                        \A p \in 1..Len(terms) : row[j] <= terms[p][2]
                  /\ \A p, q \in 1..Len(terms) : p < q => terms[p][2] >= terms[q][2]
        /\ (/\ vocab = <<"sale", "price", "item">>
            /\ components_[1] = <<90, 50, 20>>
            /\ last.args.top_k = 2)
           => TermsOf(1) = << <<"sale", 90>>, <<"price", 50>> >>

\* the scenario of C2 has run: top_k = 2 on [sale, price, item] weighted
\* [0.9, 0.5, 0.2]
C2_Witness ==
    /\ Returned("get_topics")
    /\ vocab = <<"sale", "price", "item">>
    /\ components_[1] = <<90, 50, 20>>
    /\ last.args.top_k = 2
    /\ Len(components_) = MaxTopics

\* C8: the topic ids get_topics and get_feature_names_out report are, in
\* order, the learned label set when the model has one and 0..n_topics-1
\* otherwise; there is one id per row of the topic-term matrix, the i-th id
\* comes with the terms of row i, and the two routines report the same ids.
C8_TopicIds ==
    LET n_topics == Len(components_)
        ids == IF hasClasses THEN classes_ ELSE [i \in 1..n_topics |-> i - 1]
    IN  /\ Returned("get_feature_names_out") =>
              /\ last.out.value = ids
              /\ Len(last.out.value) = n_topics
        /\ Returned("get_topics") =>
              /\ [i \in 1..Len(last.out.value) |-> last.out.value[i][1]] = ids
              /\ Len(last.out.value) = n_topics
              /\ [i \in 1..Len(last.out.value) |-> last.out.value[i][1]]
                    = get_feature_names_out(Self).out.value
              /\ \A i \in 1..n_topics :
                    \A p \in 1..Len(TermsOf(i)) :
                        \E j \in PositionsOf(TermsOf(i)[p][1]) :
                            TermsOf(i)[p][2] = components_[i][j]

\* get_topics has reported the ids of a learned label set with an outlier id
C8_Witness ==
    /\ Returned("get_topics")
    /\ hasClasses
    /\ Len(components_) = MaxTopics
    /\ last.out.value[1][1] = -1

Learnt == <<fitted, vocab, components_, hasClasses, classes_>>

CountOf(calls, name) == Cardinality({i \in 1..Len(calls) : calls[i] = name})

\* C3 as stated: prepare_topic_data attempts transform before anything else
\* and calls fit_transform only when the model is unfitted or has no
\* transform: fitted with transform, it never calls fit_transform and leaves
\* the learned matrices unchanged; otherwise it calls fit_transform exactly
\* once and the model is fitted afterwards.
C3_TransformBeforeAnythingElse ==
    [][(Idle /\ last'.op = "prepare_topic_data") =>
        /\ Len(last'.calls) > 0 /\ last'.calls[1] = "transform"
        /\ (fitted /\ hasTransform) =>
              (CountOf(last'.calls, "fit_transform") = 0 /\ UNCHANGED Learnt)
        /\ ~(fitted /\ hasTransform) =>
              (CountOf(last'.calls, "fit_transform") = 1 /\ fitted')]_vars

\* C3 as amended: prepare_topic_data first encodes the corpus when no
\* embeddings are passed, and then attempts transform before any other call;
\* it calls fit_transform only when the model is unfitted or has no transform:
\* fitted with transform, it never calls fit_transform and leaves the learned
\* matrices unchanged; otherwise it calls fit_transform exactly once, right
\* after the attempt, and the model is fitted afterwards.
C3_TransformBeforeFitTransform ==
    [][(Idle /\ last'.op = "prepare_topic_data") =>
        LET calls == last'.calls
            encoded == last'.args.embeddings = None
            rest == IF encoded THEN Tail(calls) ELSE calls
        IN  /\ Len(calls) > 0
            /\ encoded <=> calls[1] = "encode_documents"
            /\ CountOf(calls, "encode_documents") = IF encoded THEN 1 ELSE 0
            /\ Len(rest) > 0 /\ rest[1] = "transform"
            /\ CountOf(calls, "transform") = 1
            /\ (fitted /\ hasTransform) =>
                  (CountOf(calls, "fit_transform") = 0 /\ UNCHANGED Learnt)
            /\ ~(fitted /\ hasTransform) =>
                  /\ CountOf(calls, "fit_transform") = 1
                  /\ rest[2] = "fit_transform"
                  /\ fitted']_vars

\* prepare_topic_data has encoded the corpus, tried transform on an unfitted
\* model and fallen back to fit_transform
C3_Witness ==
    /\ Returned("prepare_topic_data")
    /\ hasTransform
    /\ last.calls = <<"encode_documents", "transform", "fit_transform",
                      "vectorizer.transform">>

DocsOps == {"_highest_ranking_docs", "export_highest_ranking_documents"}
DistOps == {"_topic_distribution", "export_topic_distribution"}

\* the call needed a document-topic matrix and was given none
NeedsTransform ==
    \/ last.op \in DocsOps /\ last.args.document_topic_matrix = None
    \/ last.op \in DistOps /\ last.args.topic_dist = None /\ last.args.text # None

CapabilityErrors == {TransductiveDocs, TransductiveDist}
StateErrors == {NotFittedError}

InputError == last.out.kind = "raise" /\ last.out.error = EitherTextOrDist

\* C5 as stated: _topic_distribution and its export require exactly one of
\* text and topic_dist: a call with neither and a call with both end in an
\* input error, a call with exactly one does not.
C5_ExactlyOneOfTextAndDist ==
    last.op \in DistOps =>
        (InputError <=> ((last.args.text = None) <=> (last.args.topic_dist = None)))

\* C5 as amended: _topic_distribution and its export require at least one of
\* text and topic_dist: a call with neither ends in an input error; a call
\* with one or with both does not, and with both the distribution is used
\* and the text ignored.
C5_AtLeastOneOfTextAndDist ==
    /\ last.op \in DistOps =>
          (InputError <=> (last.args.text = None /\ last.args.topic_dist = None))
    /\ (/\ last.op = "_topic_distribution"
        /\ last.args.text # None
        /\ last.args.topic_dist # None)
       => /\ last.calls = <<>>
          /\ last.out \in {r.out : r \in _topic_distribution(Self, None,
                                     last.args.topic_dist, last.args.top_k)}

\* _topic_distribution was given a text and a distribution, and returned
C5_Witness ==
    /\ Returned("_topic_distribution")
    /\ last.args.text # None
    /\ last.args.topic_dist # None

ReportingOps ==
    {"get_topics", "_topics_table", "export_topics", "topic_names", "get_vocab",
     "get_feature_names_out"} \cup DocsOps \cup DistOps

\* C6: only the fitting operations change the learned state: after any
\* sequence of them, a call of get_topics, _topics_table, export_topics,
\* topic_names, get_vocab, get_feature_names_out, _highest_ranking_docs or
\* _topic_distribution, whether it returns or raises, leaves the topic-term
\* matrix, the vocabulary, the label set and the fitted state as they were.
C6_ReportingIsReadOnly ==
    [][last'.op \in ReportingOps => UNCHANGED <<Learnt, hasTransform>>]_vars

\* a reporting routine has raised on a fitted model without a label set
C6_Witness ==
    /\ fitted /\ ~hasClasses
    /\ last.op = "_topics_table"
    /\ last.out.kind = "raise"

\* C7: in the snapshot prepare_topic_data returns every field is non-null,
\* except that transform is null exactly when the model has no transform;
\* when non-null it is the model's own transform.
C7_SnapshotFields ==
    Returned("prepare_topic_data") =>
        LET d == last.out.value
        IN  /\ d.corpus # None
            /\ d.document_term_matrix # None
            /\ d.vocab # None
            /\ d.document_topic_matrix # None
            /\ d.document_representation # None
            /\ d.topic_term_matrix # None
            /\ d.topic_names # None
            /\ (d.transform = None) <=> ~hasTransform
            /\ d.transform # None => d.transform = Some("self.transform")

\* prepare_topic_data has returned the snapshot of a transductive model from
\* a corpus passed without embeddings
C7_Witness ==
    /\ Returned("prepare_topic_data")
    /\ ~hasTransform
    /\ last.args.embeddings = None

\* C9: after any sequence of fit_transform, fit_transform_dynamic and
\* partial_fit calls that leaves the model fitted, export_topics and
\* _topics_table do not raise and yield a grid whose first row is
\* ["Topic ID", "Top {k} Words"] followed by one row per topic.
C9_TopicsTableAfterFitting ==
    (fitted /\ last.op \in {"_topics_table", "export_topics"}) =>
        /\ last.out.kind = "return"
        /\ last.op = "_topics_table" =>
              /\ last.out.value[1] =
                    <<"Topic ID", "Top " \o ToString(last.args.top_k) \o " Words">>
              /\ Len(last.out.value) = Len(components_) + 1
        /\ last.op = "export_topics" =>
              Len(last.out.value.lines) = Len(components_) + 1

\* C10: _highest_ranking_docs(topic_id, docs, M, top_k) ranks on the column
\* of M that topic_id resolves to (its place in the learned label set when
\* the model has one, topic_id itself otherwise) and returns, after the
\* header ["Document", "Score"], exactly min(top_k, n_documents - 1) rows:
\* documents of highest score in that column, by non-increasing score; a
\* topic_id absent from the label set ends in an input error.
C10_HighestRankingDocs ==
    (last.op = "_highest_ranking_docs" /\ last.args.document_topic_matrix # None) =>
        LET M == last.args.document_topic_matrix[1]
            docs == last.args.raw_documents
            id == last.args.topic_id
            n == Len(M)
            k == Min(last.args.top_k, n - 1)
            places == {i \in 1..Len(classes_) : classes_[i] = id}
            col == IF hasClasses THEN CHOOSE i \in places : TRUE ELSE id + 1
        IN  /\ (hasClasses /\ places = {}) =>
                  Raised("_highest_ranking_docs", NotInList)
            /\ (IF hasClasses THEN places # {} ELSE id \in 0..(Len(M[1]) - 1)) =>
                  /\ last.out.kind = "return"
                  /\ last.out.value[1] = <<"Document", "Score">>
                  /\ Len(last.out.value) = k + 1
                  /\ \E h \in [1..k -> 1..n] :
                        /\ \A i, j \in 1..k : i < j =>
                              /\ h[i] # h[j]
                              /\ M[h[i]][col] >= M[h[j]][col]
                        /\ \A i \in 1..k :
                              /\ last.out.value[i + 1] =
                                    <<DisplayDoc(docs[h[i]]), Fmt2(M[h[i]][col])>>
                              /\ \A d \in (1..n) \ {h[j] : j \in 1..k} :
                                    M[d][col] <= M[h[i]][col]

\* _highest_ranking_docs has ranked a full corpus on the column of a label,
\* with top_k cut down to n_documents - 1
C10_Witness ==
    /\ Returned("_highest_ranking_docs")
    /\ hasClasses
    /\ last.args.topic_id = 0
    /\ Len(last.args.raw_documents) = MaxDocs
    /\ last.args.top_k = MaxDocs + 1
    /\ Len(last.out.value) = MaxDocs

\* the i-th topic id of the fitted model
TopicIdAt(i) == IF hasClasses THEN classes_[i] ELSE i - 1

\* the names "{topic_id}_{w1}_{w2}_{w3}_{w4}" the i-th topic can carry: w1..w4
\* are four different terms of highest weight in row i, by descending weight
NamesAt(i) ==
    LET row == components_[i]
    IN  {ToString(TopicIdAt(i)) \o "_" \o Join([p \in 1..NameTopK |-> vocab[h[p]]], "_") :
            h \in {g \in [1..NameTopK -> 1..Len(row)] :
                      /\ \A p, q \in 1..NameTopK : p < q =>
                            g[p] # g[q] /\ row[g[p]] >= row[g[q]]
                      /\ \A j \in (1..Len(row)) \ {g[p] : p \in 1..NameTopK} :
                            \A p \in 1..NameTopK : row[j] <= row[g[p]]}}

\* C11: for every fitted model, topic_names has exactly n_topics entries and
\* the i-th entry is "{topic_id}_{w1}_{w2}_{w3}_{w4}", topic_id the i-th topic
\* id and w1..w4 that topic's four highest-weight terms in descending order
\* (the terms of get_topics(top_k=4)); the row labels of _topic_distribution
\* are the same strings, indexed by position in the distribution vector.
C11_TopicNames ==
    fitted =>
        /\ last.op = "topic_names" =>
              /\ last.out.kind = "return"
              /\ Len(last.out.value) = Len(components_)
              /\ \A i \in 1..Len(components_) : last.out.value[i] \in NamesAt(i)
        /\ (Returned("_topic_distribution") /\ last.args.topic_dist # None) =>
              LET dist == last.args.topic_dist[1]
              IN  \A r \in 2..Len(last.out.value) :
                     \E p \in 1..Len(dist) :
                        /\ p <= Len(components_)
                        /\ last.out.value[r][1] \in NamesAt(p)
                        /\ last.out.value[r][2] = Fmt2(dist[p])

====
